---- MODULE Spec2Model ----
(***************************************************************************)
(* A model of odata_query/visitor.py: NodeVisitor (read-only pre-order     *)
(* dispatch over a tree of dataclass nodes) and NodeTransformer (the same  *)
(* dispatch, rebuilding every node it falls back on).                      *)
(*                                                                         *)
(* Objects live in a heap (a sequence indexed by object identity), so that *)
(* "the same instance" and "a structurally equal copy" are different       *)
(* things.  A call of visit is executed one statement at a time on an      *)
(* explicit stack of generic_visit frames, so that exceptions, visiting    *)
(* order and the interleaving of two calls are observable.                 *)
(***************************************************************************)
EXTENDS Integers, Sequences, FiniteSets, TLC

\* Bounds of the input trees: nodes plus scalar list items, list length.
MaxSize == 4
MaxList == 2
\* Bound of the input trees of two interleaved calls.
ConcSize == 2

----------------------------------------------------------------------------
(* Values and objects *)

\* A Python value that is neither a list nor a node (a str, a bool, None).
Scalar(x) == [t |-> "scalar", s |-> x, id |-> 0]
\* A reference to the heap object with identity i.
Ref(i) == [t |-> "ref", s |-> "", id |-> i]
None == Scalar("None")
\* "no call of visit is about to dispatch"
NoCall == Scalar("")

\* The node classes of the trees that are fed to the engine (ast._Node
\* subclasses; the schema is the caller's), and their dataclass fields in
\* declaration order.
NodeKinds == {"Literal", "Not", "Comparison", "Call"}

Fields(kind) ==
    CASE kind = "Literal"    -> <<"val">>
      [] kind = "Not"        -> <<"operand">>
      [] kind = "Comparison" -> <<"comparator", "left", "right">>
      [] kind = "Call"       -> <<"func", "args">>
      [] OTHER               -> <<>>

\* for field in fields(node): yield field.name, getattr(node, field.name)
iter_dataclass_fields(h, n) ==
    [i \in 1..Len(Fields(h[n].kind)) |->
        [name |-> Fields(h[n].kind)[i], val |-> h[n].vals[i]]]

\* generic_visit without its branch for list fields.
NoListBranch(h, v) == FALSE
\* isinstance(value, list)
IsList(h, v) == v.t = "ref" /\ h[v.id].kind = "list"
\* isinstance(value, ast._Node)
IsNode(h, v) == v.t = "ref" /\ h[v.id].kind \in NodeKinds

\* The constructor called with the values alone, last field first.
ConstructReversed(kind, kw) ==
    [kind |-> kind, vals |-> [i \in 1..Len(kw) |-> kw[Len(kw) + 1 - i].val]]
\* type(node)(**new_kwargs): the dataclass constructor binds each keyword to
\* the field of that name; it checks no types.
Construct(kind, kw) ==
    [kind |-> kind,
     vals |-> [i \in 1..Len(Fields(kind)) |->
                 (CHOOSE e \in {kw[j] : j \in 1..Len(kw)} :
                     e.name = Fields(kind)[i]).val]]

\* new_val.insert(0, x)
ListPrepend(items, x) == <<x>> \o items
\* new_val.append(x)
ListAppend(items, x) == Append(items, x)

----------------------------------------------------------------------------
(* The input trees *)

TScalar(x) == [t |-> "scalar", k |-> x, vals |-> <<>>]
TNode(kind, vals) == [t |-> "node", k |-> kind, vals |-> vals]
TList(items) == [t |-> "list", k |-> "list", vals |-> items]

RECURSIVE TreesOfSize(_)
RECURSIVE ItemSeqs(_, _)
\* The item sequences of length len and total size n; a list may hold nodes
\* and values that are not nodes.
ItemSeqs(len, n) ==
    IF len = 0 THEN (IF n = 0 THEN {<<>>} ELSE {})
    ELSE UNION { { <<x>> \o r :
                     x \in (IF a = 1 THEN TreesOfSize(1) \cup {TScalar("s")}
                                     ELSE TreesOfSize(a)),
                     r \in ItemSeqs(len - 1, n - a) } : a \in 1..n }

TreesOfSize(n) ==
    IF n < 1 THEN {}
    ELSE (IF n = 1 THEN {TNode("Literal", <<TScalar("1")>>)} ELSE {})
         \cup { TNode("Not", <<x>>) : x \in TreesOfSize(n - 1) }
         \cup UNION { { TNode("Comparison", <<TScalar("eq"), l, r>>) :
                          l \in TreesOfSize(a), r \in TreesOfSize(n - 1 - a) } :
                      a \in 1..(n - 2) }
         \cup UNION { { TNode("Call", <<TScalar("f"), TList(s)>>) :
                          s \in ItemSeqs(len, n - 1) } : len \in 0..MaxList }

Trees(n) == UNION { TreesOfSize(i) : i \in 1..n }

RECURSIVE Load(_, _)
RECURSIVE LoadSeq(_, _)
\* The heap h extended by the objects of tree tr, and the value that refers
\* to it.  Every node and every list is an object of its own: a tree, with no
\* sharing.
Load(h, tr) ==
    IF tr.t = "scalar" THEN [h |-> h, v |-> Scalar(tr.k)]
    ELSE LET L == LoadSeq(h, tr.vals)
         IN  [h |-> Append(L.h, [kind |-> tr.k, vals |-> L.vs]),
              v |-> Ref(Len(L.h) + 1)]

LoadSeq(h, trs) ==
    IF trs = <<>> THEN [h |-> h, vs |-> <<>>]
    ELSE LET A == Load(h, Head(trs))
             B == LoadSeq(A.h, Tail(trs))
         IN  [h |-> B.h, vs |-> <<A.v>> \o B.vs]

----------------------------------------------------------------------------
(* State *)

Calls == {1, 2}
Engines == {"NodeVisitor", "NodeTransformer"}
\* What a registered visit_<Kind> method does: return its argument, return a
\* new Literal(true), return None, raise, or recurse into the children
\* itself (return self.generic_visit(node)).
Behaviours == {"ident", "subst", "nonnode", "raise", "recurse"}

NoHandlers == [k \in NodeKinds |-> "none"]
\* The subclasses of the engine that are exercised: no visit_<Kind> method,
\* or one method for one kind.
HandlerConfigs ==
    {NoHandlers} \cup
    { [NoHandlers EXCEPT ![k] = b] : k \in NodeKinds, b \in Behaviours }

VARIABLES
    heap,      \* the objects: heap[i] = [kind, vals]; a list has kind "list"
    heap0,     \* the heap when the input was handed over
    origin,    \* origin[i]: the object that object i was rebuilt from, or 0
    handlers,  \* handlers[kind]: the behaviour of visit_<kind>, or "none"
    engine,    \* engine[c]: the class whose visit call c runs
    root,      \* root[c]: the node call c was given, 0 when there is no call c
    status,    \* "idle", "running", "raising", "returned" or "raised"
    pend,      \* pend[c]: the node self.visit has just been called with
    stack,     \* stack[c]: the generic_visit frames of call c, innermost first
    log,       \* log[c]: the nodes visit was called with, in order, and how
    result     \* result[c]: what the outermost visit returned

vars == <<heap, heap0, origin, handlers, engine, root, status, pend, stack,
          log, result>>

\* A generic_visit frame: the node, the position of the loop over its fields
\* (fi), the position of the loop over a list field's items (li, 0 outside
\* such a loop), new_kwargs (kw) and the identity of new_val (nv).
Frame(n) == [node |-> n, fi |-> 1, li |-> 0, kw |-> <<>>, nv |-> 0]

InitWith(h, roots, engs, hc) ==
    /\ heap = h
    /\ heap0 = h
    /\ origin = [i \in 1..Len(h) |-> 0]
    /\ handlers = hc
    /\ engine = engs
    /\ root = roots
    /\ status = [c \in Calls |-> "idle"]
    /\ pend = [c \in Calls |-> NoCall]
    /\ stack = [c \in Calls |-> <<>>]
    /\ log = [c \in Calls |-> <<>>]
    /\ result = [c \in Calls |-> None]

\* One call, on any tree, of either engine, under any handler configuration.
Init ==
    \E tr \in Trees(MaxSize), hc \in HandlerConfigs, e \in Engines :
        LET L == Load(<<>>, tr)
        IN  InitWith(L.h, [c \in Calls |-> IF c = 1 THEN L.v.id ELSE 0],
                     [c \in Calls |-> e], hc)

\* Two calls of handler-free engines, on the same tree or on two trees, each
\* call of either engine.
InitConc ==
    \E t1 \in Trees(ConcSize), t2 \in Trees(ConcSize), same \in BOOLEAN,
       e1 \in Engines, e2 \in Engines :
        LET A == Load(<<>>, t1)
            B == Load(A.h, t2)
        IN  InitWith(IF same THEN A.h ELSE B.h,
                     [c \in Calls |-> IF c = 1 \/ same THEN A.v.id ELSE B.v.id],
                     [c \in Calls |-> IF c = 1 THEN e1 ELSE e2], NoHandlers)

----------------------------------------------------------------------------
(* visit and generic_visit, statement by statement *)

Top(c) == Head(stack[c])
TopFields(c) == iter_dataclass_fields(heap, Top(c).node)
InLoop(c) ==
    /\ status[c] = "running"
    /\ pend[c] = NoCall
    /\ stack[c] # <<>>
    /\ Top(c).fi <= Len(TopFields(c))
CurField(c) == TopFields(c)[Top(c).fi]
CurItems(c) == heap[CurField(c).val.id].vals

\* visit going straight to generic_visit, whatever methods are defined.
NoDispatch(kind) == FALSE
\* method = "visit_" + node.__class__.__name__
\* visitor = getattr(self, method, self.generic_visit)
HasHandler(kind) == handlers[kind] # "none"

\* new_kwargs[field] = value: the field's old value, not new_val.
AdvanceKeepsOld(e, h, f, name, v) ==
    IF f.li > 0 THEN [f EXCEPT !.li = f.li + 1]
    ELSE [f EXCEPT !.fi = f.fi + 1,
                   !.kw = IF e = "NodeTransformer"
                          THEN Append(f.kw, [name |-> name,
                                             val |-> h[f.node].vals[f.fi]])
                          ELSE f.kw]

\* The frame f after the value v came back from self.visit (or was taken
\* over as it is): NodeVisitor drops it, NodeTransformer stores it in
\* new_kwargs (new_kwargs[field] = new_val); inside a list loop the value
\* went to new_val instead and the loop goes on.
Advance(e, h, f, name, v) ==
    IF f.li > 0 THEN [f EXCEPT !.li = f.li + 1]
    ELSE [f EXCEPT !.fi = f.fi + 1,
                   !.kw = IF e = "NodeTransformer"
                          THEN Append(f.kw, [name |-> name, val |-> v])
                          ELSE f.kw]

\* new_val kept on the visitor (self.new_val) instead of in the frame: the
\* value goes to the list begun last, by whichever call.
CollectShared(e, h, f, v) ==
    IF e = "NodeTransformer" /\ f.li > 0
    THEN LET last == CHOOSE l \in 1..Len(h) :
                        /\ h[l].kind = "list"
                        /\ \A m \in (l + 1)..Len(h) : h[m].kind # "list"
         IN  [h EXCEPT ![last].vals = ListAppend(h[last].vals, v)]
    ELSE h

\* The heap h after the value v came back to frame f: inside a list loop
\* NodeTransformer appends it to new_val.
Collect(e, h, f, v) ==
    IF e = "NodeTransformer" /\ f.li > 0
    THEN [h EXCEPT ![f.nv].vals = ListAppend(h[f.nv].vals, v)]
    ELSE h

\* self.visit returns v to its caller: the frame on top of stk, or the caller
\* of the outermost visit.
Deliver(c, v, h, stk) ==
    IF stk = <<>>
    THEN /\ heap' = h
         /\ stack' = [stack EXCEPT ![c] = stk]
         /\ result' = [result EXCEPT ![c] = v]
         /\ status' = [status EXCEPT ![c] = "returned"]
    ELSE LET f == Head(stk)
             name == iter_dataclass_fields(h, f.node)[f.fi].name
         IN  /\ heap' = Collect(engine[c], h, f, v)
             /\ stack' = [stack EXCEPT ![c] =
                            <<Advance(engine[c], h, f, name, v)>> \o Tail(stk)]
             /\ UNCHANGED <<result, status>>

\* The caller invokes visit(root).
CallVisit(c) ==
    /\ status[c] = "idle"
    /\ root[c] # 0
    /\ status' = [status EXCEPT ![c] = "running"]
    /\ pend' = [pend EXCEPT ![c] = Ref(root[c])]
    /\ UNCHANGED <<heap, heap0, origin, handlers, engine, root, stack, log,
                   result>>

\* visit: no visit_<Kind> method, so generic_visit(node) is entered.
VisitGeneric(c) ==
    /\ status[c] = "running"
    /\ pend[c] # NoCall
    /\ ~HasHandler(heap[pend[c].id].kind)
    /\ log' = [log EXCEPT ![c] =
                 Append(@, [node |-> pend[c].id, how |-> "generic"])]
    /\ stack' = [stack EXCEPT ![c] = <<Frame(pend[c].id)>> \o @]
    /\ pend' = [pend EXCEPT ![c] = NoCall]
    /\ UNCHANGED <<heap, heap0, origin, handlers, engine, root, status,
                   result>>

\* What visit_<Kind>(node) returns, and the heap after it ran.
HandlerValue(h, n, b) ==
    CASE b = "ident"   -> [h |-> h, v |-> Ref(n)]
      [] b = "subst"   -> [h |-> Append(h, [kind |-> "Literal",
                                            vals |-> <<Scalar("true")>>]),
                           v |-> Ref(Len(h) + 1)]
      [] OTHER         -> [h |-> h, v |-> None]

\* visit: visit_<Kind>(node) is called and returns.
VisitHandler(c) ==
    /\ status[c] = "running"
    /\ pend[c] # NoCall
    /\ HasHandler(heap[pend[c].id].kind)
    /\ handlers[heap[pend[c].id].kind] \notin {"raise", "recurse"}
    /\ LET R == HandlerValue(heap, pend[c].id, handlers[heap[pend[c].id].kind])
       IN  /\ Deliver(c, R.v, R.h, stack[c])
           /\ origin' = [i \in 1..Len(R.h) |->
                           IF i <= Len(origin) THEN origin[i] ELSE 0]
    /\ log' = [log EXCEPT ![c] =
                 Append(@, [node |-> pend[c].id, how |-> "handler"])]
    /\ pend' = [pend EXCEPT ![c] = NoCall]
    /\ UNCHANGED <<heap0, handlers, engine, root>>

\* visit: visit_<Kind>(node) is called and calls self.generic_visit(node),
\* whose result it will return.
VisitHandlerRecurses(c) ==
    /\ status[c] = "running"
    /\ pend[c] # NoCall
    /\ HasHandler(heap[pend[c].id].kind)
    /\ handlers[heap[pend[c].id].kind] = "recurse"
    /\ log' = [log EXCEPT ![c] =
                 Append(@, [node |-> pend[c].id, how |-> "handler"])]
    /\ stack' = [stack EXCEPT ![c] = <<Frame(pend[c].id)>> \o @]
    /\ pend' = [pend EXCEPT ![c] = NoCall]
    /\ UNCHANGED <<heap, heap0, origin, handlers, engine, root, status,
                   result>>

\* The exception of visit_<Kind> caught and dropped: visit returns None.
VisitHandlerSwallowed(c) ==
    /\ status[c] = "running"
    /\ pend[c] # NoCall
    /\ handlers[heap[pend[c].id].kind] = "raise"
    /\ log' = [log EXCEPT ![c] =
                 Append(@, [node |-> pend[c].id, how |-> "handler"])]
    /\ pend' = [pend EXCEPT ![c] = NoCall]
    /\ Deliver(c, None, heap, stack[c])
    /\ UNCHANGED <<heap0, origin, handlers, engine, root>>

\* visit: visit_<Kind>(node) is called and raises.
VisitHandlerRaises(c) ==
    /\ status[c] = "running"
    /\ pend[c] # NoCall
    /\ handlers[heap[pend[c].id].kind] = "raise"
    /\ log' = [log EXCEPT ![c] =
                 Append(@, [node |-> pend[c].id, how |-> "handler"])]
    /\ pend' = [pend EXCEPT ![c] = NoCall]
    /\ status' = [status EXCEPT ![c] = "raising"]
    /\ UNCHANGED <<heap, heap0, origin, handlers, engine, root, stack, result>>

\* No frame of generic_visit or visit catches: the exception leaves the
\* innermost frame.
Unwind(c) ==
    /\ status[c] = "raising"
    /\ stack[c] # <<>>
    /\ stack' = [stack EXCEPT ![c] = Tail(@)]
    /\ UNCHANGED <<heap, heap0, origin, handlers, engine, root, status, pend,
                   log, result>>

\* The exception leaves the outermost visit.
Escape(c) ==
    /\ status[c] = "raising"
    /\ stack[c] = <<>>
    /\ status' = [status EXCEPT ![c] = "raised"]
    /\ UNCHANGED <<heap, heap0, origin, handlers, engine, root, stack, pend,
                   log, result>>

\* new_val = value: the output list is the input's list object.
AliasList(h, old) == [h |-> h, id |-> old]
\* The object new_val names when the loop over a list field starts:
\* NodeTransformer's new_val = [] is a new, empty list.
NewList(h, old) == [h |-> Append(h, [kind |-> "list", vals |-> <<>>]),
                    id |-> Len(h) + 1]

\* if isinstance(value, list): (new_val = []) and the loop over it starts.
ListBegin(c) ==
    /\ InLoop(c)
    /\ IsList(heap, CurField(c).val)
    /\ Top(c).li = 0
    /\ IF engine[c] = "NodeTransformer"
       THEN LET N == NewList(heap, CurField(c).val.id)
            IN  /\ heap' = N.h
                /\ origin' = [i \in 1..Len(N.h) |->
                                IF i <= Len(origin) THEN origin[i]
                                ELSE CurField(c).val.id]
                /\ stack' = [stack EXCEPT ![c] =
                               <<[Top(c) EXCEPT !.li = 1, !.nv = N.id]>>
                               \o Tail(@)]
       ELSE /\ stack' = [stack EXCEPT ![c] =
                           <<[Top(c) EXCEPT !.li = 1]>> \o Tail(@)]
            /\ UNCHANGED <<heap, origin>>
    /\ UNCHANGED <<heap0, handlers, engine, root, status, pend, log, result>>

\* for item in value: if isinstance(item, ast._Node): self.visit(item)
ListItemNode(c) ==
    /\ InLoop(c)
    /\ IsList(heap, CurField(c).val)
    /\ Top(c).li \in 1..Len(CurItems(c))
    /\ IsNode(heap, CurItems(c)[Top(c).li])
    /\ pend' = [pend EXCEPT ![c] = CurItems(c)[Top(c).li]]
    /\ UNCHANGED <<heap, heap0, origin, handlers, engine, root, status, stack,
                   log, result>>

\* for item in value: else: new_val.append(item)   (NodeVisitor: skip it)
ListItemOther(c) ==
    /\ InLoop(c)
    /\ IsList(heap, CurField(c).val)
    /\ Top(c).li \in 1..Len(CurItems(c))
    /\ ~IsNode(heap, CurItems(c)[Top(c).li])
    /\ heap' = Collect(engine[c], heap, Top(c), CurItems(c)[Top(c).li])
    /\ stack' = [stack EXCEPT ![c] =
                   <<Advance(engine[c], heap, Top(c), CurField(c).name,
                             CurItems(c)[Top(c).li])>> \o Tail(@)]
    /\ UNCHANGED <<heap0, origin, handlers, engine, root, status, pend, log,
                   result>>

\* The loop over the list is over: new_kwargs[field] = new_val.
ListEnd(c) ==
    /\ InLoop(c)
    /\ IsList(heap, CurField(c).val)
    /\ Top(c).li = Len(CurItems(c)) + 1
    /\ stack' = [stack EXCEPT ![c] =
                   <<Advance(engine[c], heap, [Top(c) EXCEPT !.li = 0, !.nv = 0],
                             CurField(c).name, Ref(Top(c).nv))>> \o Tail(@)]
    /\ UNCHANGED <<heap, heap0, origin, handlers, engine, root, status, pend,
                   log, result>>

\* elif isinstance(value, ast._Node): self.visit(value)
FieldNode(c) ==
    /\ InLoop(c)
    /\ ~IsList(heap, CurField(c).val)
    /\ IsNode(heap, CurField(c).val)
    /\ pend' = [pend EXCEPT ![c] = CurField(c).val]
    /\ UNCHANGED <<heap, heap0, origin, handlers, engine, root, status, stack,
                   log, result>>

\* else: new_val = value   (NodeVisitor: nothing)
FieldOther(c) ==
    /\ InLoop(c)
    /\ ~IsList(heap, CurField(c).val)
    /\ ~IsNode(heap, CurField(c).val)
    /\ stack' = [stack EXCEPT ![c] =
                   <<Advance(engine[c], heap, Top(c), CurField(c).name,
                             CurField(c).val)>> \o Tail(@)]
    /\ UNCHANGED <<heap, heap0, origin, handlers, engine, root, status, pend,
                   log, result>>

\* generic_visit returning its argument instead of a rebuilt node.
SameNode(e, h, f) == [h |-> h, v |-> IF e = "NodeTransformer" THEN Ref(f.node) ELSE None]
\* What generic_visit returns once the loop over the fields is over, and the
\* heap then: NodeVisitor falls off the end (None); NodeTransformer returns
\* type(node)(**new_kwargs), a new object.
GenericResult(e, h, f) ==
    IF e = "NodeTransformer"
    THEN [h |-> Append(h, Construct(h[f.node].kind, f.kw)),
          v |-> Ref(Len(h) + 1)]
    ELSE [h |-> h, v |-> None]

GenericReturn(c) ==
    /\ status[c] = "running"
    /\ pend[c] = NoCall
    /\ stack[c] # <<>>
    /\ Top(c).fi > Len(TopFields(c))
    /\ LET R == GenericResult(engine[c], heap, Top(c))
       IN  /\ Deliver(c, R.v, R.h, Tail(stack[c]))
           /\ origin' = [i \in 1..Len(R.h) |->
                           IF i <= Len(origin) THEN origin[i]
                           ELSE Top(c).node]
    /\ UNCHANGED <<heap0, handlers, engine, root, pend, log>>

Next ==
    \E c \in Calls :
        \/ CallVisit(c)
        \/ VisitGeneric(c)
        \/ VisitHandler(c)
        \/ VisitHandlerRecurses(c)
        \/ VisitHandlerRaises(c)
        \/ Unwind(c)
        \/ Escape(c)
        \/ ListBegin(c)
        \/ ListItemNode(c)
        \/ ListItemOther(c)
        \/ ListEnd(c)
        \/ FieldNode(c)
        \/ FieldOther(c)
        \/ GenericReturn(c)

Spec == Init /\ [][Next]_vars

\* The steps of two calls that run side by side with no visit_<Kind> method
\* defined, interleaved statement by statement.
NextConc ==
    \E c \in Calls :
        \/ CallVisit(c)
        \/ VisitGeneric(c)
        \/ ListBegin(c)
        \/ ListItemNode(c)
        \/ ListItemOther(c)
        \/ ListEnd(c)
        \/ FieldNode(c)
        \/ FieldOther(c)
        \/ GenericReturn(c)

SpecConc == InitConc /\ [][NextConc]_vars

----------------------------------------------------------------------------
(* The terms the properties are stated in *)

RECURSIVE Abs(_, _)
\* The tree a value stands for, identities forgotten: two values are
\* structurally equal when their trees are equal.
Abs(h, v) ==
    IF v.t = "scalar" THEN TScalar(v.s)
    ELSE [t |-> IF h[v.id].kind = "list" THEN "list" ELSE "node",
          k |-> h[v.id].kind,
          vals |-> [i \in 1..Len(h[v.id].vals) |-> Abs(h, h[v.id].vals[i])]]

RECURSIVE Flat(_)
Flat(ss) == IF ss = <<>> THEN <<>> ELSE Head(ss) \o Flat(Tail(ss))

RECURSIVE PreOrder(_, _)
\* The nodes below a value, a node before its fields' nodes, fields in
\* declared order, list items in list order.
PreOrder(h, v) ==
    IF v.t = "scalar" THEN <<>>
    ELSE (IF h[v.id].kind = "list" THEN <<>> ELSE <<v.id>>)
         \o Flat([i \in 1..Len(h[v.id].vals) |-> PreOrder(h, h[v.id].vals[i])])

Range(s) == {s[i] : i \in 1..Len(s)}
\* The nodes of the tree below a value.
NodesOf(h, v) == Range(PreOrder(h, v))
\* The nodes visit was called with by call c, in order.
Visited(c) == [i \in 1..Len(log[c]) |-> log[c][i].node]
\* The objects of the input, and the node objects made since.
Original == 1..Len(heap0)
IsNodeObj(h, i) == h[i].kind \in NodeKinds
\* The nodes generic_visit has rebuilt.
Rebuilt == {p \in 1..Len(heap) : origin[p] # 0 /\ IsNodeObj(heap, p)}
\* Call c ran to its end and returned.
Returned(c) == status[c] = "returned"

----------------------------------------------------------------------------
(* C1 *)

\* C1 (completeness): NodeVisitor.visit(root) with no visit_<Kind> method
\* calls visit with every node of the tree exactly once, in pre-order: a node
\* before its descendants, fields in declared order, list items in list
\* order.  While the call runs, what it has visited is a prefix of that order.
C1_Completeness ==
    \A c \in Calls :
        (engine[c] = "NodeVisitor" /\ handlers = NoHandlers /\ root[c] # 0) =>
            LET want == PreOrder(heap0, Ref(root[c]))
                got  == Visited(c)
            IN  /\ Len(got) <= Len(want)
                /\ got = SubSeq(want, 1, Len(got))
                /\ \A i, j \in 1..Len(got) : i # j => got[i] # got[j]
                /\ Returned(c) =>
                     /\ Range(got) = {n \in Original : IsNodeObj(heap0, n)}
                     /\ Len(got) = Cardinality(Range(got))
                     /\ result[c] = None

\* A finished plain traversal of a Call whose list holds two nodes, the
\* second with a child of its own.
C1_Witness ==
    /\ Returned(1) /\ engine[1] = "NodeVisitor" /\ handlers = NoHandlers
    /\ heap0[root[1]].kind = "Call"
    /\ Len(heap0[heap0[root[1]].vals[2].id].vals) = 2
    /\ Len(log[1]) = 4

----------------------------------------------------------------------------
(* C2 *)

\* C2 (identity round-trip): NodeTransformer.visit(root) with no
\* visit_<Kind> method returns a tree structurally equal to the input (same
\* kind at every position, same field values in the same order) none of
\* whose nodes is a node of the input.
C2_IdentityRoundTrip ==
    \A c \in Calls :
        (engine[c] = "NodeTransformer" /\ handlers = NoHandlers /\ Returned(c)) =>
            /\ IsNode(heap, result[c])
            /\ Abs(heap, result[c]) = Abs(heap0, Ref(root[c]))
            /\ NodesOf(heap, result[c]) \cap Original = {}

\* A finished plain transformation of a tree that has a Comparison and a
\* list in it.
C2_Witness ==
    /\ Returned(1) /\ engine[1] = "NodeTransformer" /\ handlers = NoHandlers
    /\ heap0[root[1]].kind = "Call"
    /\ \E n \in NodesOf(heap, result[1]) : heap[n].kind = "Comparison"

----------------------------------------------------------------------------
(* C9 *)

\* C9 (the input is left unchanged): whatever either engine does, with
\* handlers that do not mutate nodes, every object of the input (every node
\* and every list object) is what it was when visit was called; the engine
\* writes only to lists and nodes it created.
C9_InputUnchanged ==
    /\ Len(heap) >= Len(heap0)
    /\ \A i \in Original : heap[i] = heap0[i]
    /\ \A c \in Calls :
          (engine[c] = "NodeVisitor" /\ handlers = NoHandlers) => heap = heap0

\* A finished transformation that has built a list of two items.
C9_Witness ==
    /\ Returned(1) /\ engine[1] = "NodeTransformer"
    /\ \E i \in 1..Len(heap) :
          /\ i \notin Original
          /\ heap[i].kind = "list"
          /\ Len(heap[i].vals) = 2

----------------------------------------------------------------------------
(* What visit returns for a node of the input *)

IsLiteralTrue(pv) ==
    /\ pv.t = "ref" /\ pv.id \notin Original /\ origin[pv.id] = 0
    /\ heap[pv.id] = [kind |-> "Literal", vals |-> <<Scalar("true")>>]

\* pv is what visit(ov) of engine e returned, ov a node of the input: the
\* handler's value when visit_<Kind> is defined (its argument, a new
\* Literal(true), None, or what generic_visit returned to it), else what
\* generic_visit returned: the node NodeTransformer rebuilt from ov, None
\* from NodeVisitor.
ResultOfVisit(e, pv, ov) ==
    LET b == handlers[heap0[ov.id].kind]
    IN  CASE b \in {"none", "recurse"} ->
                IF e = "NodeTransformer"
                THEN /\ IsNode(heap, pv) /\ pv.id \notin Original
                     /\ origin[pv.id] = ov.id
                     /\ heap[pv.id].kind = heap0[ov.id].kind
                ELSE pv = None
          [] b = "ident"   -> pv = ov
          [] b = "subst"   -> IsLiteralTrue(pv)
          [] b = "nonnode" -> pv = None
          [] OTHER         -> FALSE

KindsIn(h, v) == {h[n].kind : n \in NodesOf(h, v)}
Raising(c) == status[c] \in {"raising", "raised"}

----------------------------------------------------------------------------
(* C3 *)

\* C3 (handler dispatch): in both engines visit(node) calls visit_<Kind>
\* exactly when it is defined, once, and returns its value as it is (to the
\* caller of the outermost visit, or into the rebuilt parent); none of the
\* node's descendants is visited then, unless the handler itself recurses.
\* With no visit_<Kind>, generic_visit runs, and nothing is raised unless a
\* handler raises.
C3_HandlerDispatch ==
    \A c \in Calls :
        /\ \A i \in 1..Len(log[c]) :
              LET n == log[c][i].node
              IN  /\ n \in Original
                  /\ (log[c][i].how = "handler") <=> (handlers[heap0[n].kind] # "none")
                  /\ (log[c][i].how = "generic") <=> (handlers[heap0[n].kind] = "none")
                  /\ \A j \in 1..Len(log[c]) : log[c][j].node = n => j = i
                  /\ (log[c][i].how = "handler"
                        /\ handlers[heap0[n].kind] # "recurse") =>
                        NodesOf(heap0, Ref(n)) \cap Range(Visited(c)) = {n}
        /\ (Returned(c) /\ handlers[heap0[root[c]].kind] # "none") =>
              ResultOfVisit(engine[c], result[c], Ref(root[c]))
        /\ \A p \in Rebuilt : \A i \in 1..Len(heap0[origin[p]].vals) :
              LET ov == heap0[origin[p]].vals[i]
              IN  (IsNode(heap0, ov) /\ handlers[heap0[ov.id].kind] # "none") =>
                      ResultOfVisit("NodeTransformer", heap[p].vals[i], ov)
        /\ Raising(c) =>
              \E i \in 1..Len(log[c]) :
                  /\ log[c][i].how = "handler"
                  /\ handlers[heap0[log[c][i].node].kind] = "raise"

\* A finished call in which a handler took a Comparison below the root: its
\* two operands were not visited.
C3_Witness ==
    /\ Returned(1)
    /\ Len(log[1]) = 2
    /\ log[1][1].how = "generic" /\ log[1][2].how = "handler"
    /\ heap0[log[1][2].node].kind = "Comparison"

----------------------------------------------------------------------------
(* C4 *)

\* How a field (or list item) of a rebuilt node relates to the original
\* one when visit_Comparison returns a new Literal(true): a Comparison is
\* replaced by that Literal, and a value with no Comparison in it is
\* structurally what it was.
C4_ValueOK(pv, ov) ==
    IF IsNode(heap0, ov) /\ heap0[ov.id].kind = "Comparison"
    THEN IsLiteralTrue(pv)
    ELSE ("Comparison" \notin KindsIn(heap0, ov)) => Abs(heap, pv) = Abs(heap0, ov)

\* C4 (kind substitution): when visit_Comparison replaces a Comparison by a
\* Literal and the parent has no handler, the rebuilt parent has the
\* parent's kind, holds the Literal in exactly that field or list position,
\* and every other field keeps its position and a structurally equal value.
C4_KindSubstitution ==
    handlers["Comparison"] = "subst" =>
        \A p \in Rebuilt :
            LET o == origin[p]
            IN  /\ heap[p].kind = heap0[o].kind
                /\ Len(heap[p].vals) = Len(heap0[o].vals)
                /\ \A i \in 1..Len(heap0[o].vals) :
                      LET ov == heap0[o].vals[i]
                          pv == heap[p].vals[i]
                      IN  IF IsList(heap0, ov)
                          THEN /\ IsList(heap, pv)
                               /\ Len(heap[pv.id].vals) = Len(heap0[ov.id].vals)
                               /\ \A j \in 1..Len(heap0[ov.id].vals) :
                                     C4_ValueOK(heap[pv.id].vals[j],
                                                heap0[ov.id].vals[j])
                          ELSE C4_ValueOK(pv, ov)

\* A returned Call whose only argument was a Comparison and is a
\* Literal(true) now, its func field as before.
C4_Witness ==
    /\ Returned(1) /\ handlers["Comparison"] = "subst"
    /\ IsNode(heap, result[1])
    /\ heap[result[1].id].kind = "Call"
    /\ heap0[root[1]].kind = "Call"
    /\ heap[result[1].id].vals[1] = Scalar("f")
    /\ Len(heap0[heap0[root[1]].vals[2].id].vals) = 1
    /\ IsNode(heap0, heap0[heap0[root[1]].vals[2].id].vals[1])
    /\ heap0[heap0[heap0[root[1]].vals[2].id].vals[1].id].kind = "Comparison"
    /\ IsLiteralTrue(heap[heap[result[1].id].vals[2].id].vals[1])

----------------------------------------------------------------------------
(* C5 *)

\* C5 (list order preservation): under any handlers, a list NodeTransformer
\* builds from the list [x1..xn] holds at position i the result of
\* visit(xi) when xi is a node and xi itself when it is not, for the items
\* done so far; in a rebuilt node the list is a new object with all n items.
C5_ListOrder ==
    /\ \A l \in 1..Len(heap) :
          (l \notin Original /\ heap[l].kind = "list") =>
              /\ origin[l] \in Original
              /\ heap0[origin[l]].kind = "list"
              /\ Len(heap[l].vals) <= Len(heap0[origin[l]].vals)
              /\ \A j \in 1..Len(heap[l].vals) :
                    LET x == heap0[origin[l]].vals[j]
                        y == heap[l].vals[j]
                    IN  IF IsNode(heap0, x)
                        THEN ResultOfVisit("NodeTransformer", y, x)
                        ELSE y = x
    /\ \A p \in Rebuilt : \A i \in 1..Len(heap0[origin[p]].vals) :
          LET ov == heap0[origin[p]].vals[i]
              pv == heap[p].vals[i]
          IN  IsList(heap0, ov) =>
                  /\ IsList(heap, pv)
                  /\ pv.id \notin Original
                  /\ origin[pv.id] = ov.id
                  /\ Len(heap[pv.id].vals) = Len(heap0[ov.id].vals)

\* A returned Call rebuilt from one whose list held a value that is no node
\* and then a node.
C5_Witness ==
    /\ Returned(1) /\ IsNode(heap, result[1])
    /\ result[1].id \in Rebuilt
    /\ heap[result[1].id].kind = "Call"
    /\ LET xs == heap0[heap0[root[1]].vals[2].id].vals
       IN  Len(xs) = 2 /\ ~IsNode(heap0, xs[1]) /\ IsNode(heap0, xs[2])

----------------------------------------------------------------------------
(* C6 *)

\* C6 (reconstruction mismatch fails loudly): when a handler returns a value
\* that is no node for a field that held a node, the transformation fails:
\* no node is returned that was rebuilt with that value in the field.
C6_MismatchFailsLoudly ==
    \A c \in Calls :
        (Returned(c) /\ engine[c] = "NodeTransformer" /\ IsNode(heap, result[c])) =>
            \A p \in NodesOf(heap, result[c]) \cap Rebuilt :
                \A i \in 1..Len(heap0[origin[p]].vals) :
                    IsNode(heap0, heap0[origin[p]].vals[i]) =>
                        IsNode(heap, heap[p].vals[i])

----------------------------------------------------------------------------
(* C7 *)

\* The children of the rebuilt node p, each with the child of the original
\* node it stands for: the fields that hold a node and the list items that
\* are nodes.
ChildPairs(p) ==
    LET o == origin[p]
        F == 1..Len(heap0[o].vals)
    IN  { [pv |-> heap[p].vals[i], ov |-> heap0[o].vals[i]] :
            i \in {i \in F : IsNode(heap0, heap0[o].vals[i])} }
        \cup UNION {
            { [pv |-> heap[heap[p].vals[i].id].vals[j],
               ov |-> heap0[heap0[o].vals[i].id].vals[j]] :
                j \in {j \in 1..Len(heap0[heap0[o].vals[i].id].vals) :
                         IsNode(heap0, heap0[heap0[o].vals[i].id].vals[j])} } :
            i \in {i \in F : IsList(heap0, heap0[o].vals[i])
                             /\ IsList(heap, heap[p].vals[i])} }

\* No handler is defined for a kind that occurs in the subtree.
NoHandlerIn(ov) == \A k \in KindsIn(heap0, ov) : handlers[k] = "none"
\* No handler altered the subtree: those that ran returned their argument.
Unaltered(ov) == \A k \in KindsIn(heap0, ov) : handlers[k] \in {"none", "ident"}
\* What visit returned for a root with no handler is a rebuilt node.
RootRebuilt(c) ==
    (Returned(c) /\ engine[c] = "NodeTransformer"
       /\ handlers[heap0[root[c]].kind] = "none") =>
        /\ IsNode(heap, result[c])
        /\ result[c].id \in Rebuilt
        /\ origin[result[c].id] = root[c]

\* C7 as claimed (sharing of unaltered children): every rebuilt node is a
\* new instance, and every child subtree no handler altered is the very
\* instance of the input.
C7_SharesUnaltered ==
    /\ \A c \in Calls : RootRebuilt(c)
    /\ \A p \in Rebuilt :
          /\ p \notin Original
          /\ \A x \in ChildPairs(p) : Unaltered(x.ov) => x.pv = x.ov

\* C7 as amended: every rebuilt node is a new instance; a child whose
\* handler returned it as it was is the very instance of the input; a child
\* with no handler is rebuilt too, a new instance, structurally equal to the
\* original when no handler is defined for a kind inside it.
C7_RebuildsUnaltered ==
    /\ \A c \in Calls : RootRebuilt(c)
    /\ \A p \in Rebuilt :
          /\ p \notin Original
          /\ \A x \in ChildPairs(p) :
                /\ handlers[heap0[x.ov.id].kind] = "ident" => x.pv = x.ov
                /\ handlers[heap0[x.ov.id].kind] = "none" =>
                      /\ IsNode(heap, x.pv)
                      /\ x.pv.id \notin Original
                      /\ origin[x.pv.id] = x.ov.id
                      /\ NoHandlerIn(x.ov) => Abs(heap, x.pv) = Abs(heap0, x.ov)

\* A returned Comparison, rebuilt, one operand a Not with no handler (a new
\* instance) over a Literal whose handler returned it (the old instance).
C7_Witness ==
    /\ Returned(1) /\ IsNode(heap, result[1]) /\ result[1].id \in Rebuilt
    /\ handlers["Literal"] = "ident"
    /\ \E x \in ChildPairs(result[1].id) :
          /\ heap0[x.ov.id].kind = "Not"
          /\ x.pv.id \notin Original
          /\ heap[x.pv.id].vals[1] = heap0[x.ov.id].vals[1]

----------------------------------------------------------------------------
(* C8 *)

\* C8 (no partial result): once a handler has raised, the call is failing
\* or has failed and never returns: nothing came back to the caller, the
\* raising node is the last one visit was called with (no later sibling, no
\* field of an ancestor), and the exception has left every frame when it
\* reaches the caller.
C8_NoPartialResult ==
    \A c \in Calls :
        /\ (\E i \in 1..Len(log[c]) :
               handlers[heap0[log[c][i].node].kind] = "raise") => Raising(c)
        /\ Raising(c) =>
              /\ result[c] = None
              /\ pend[c] = NoCall
              /\ log[c] # <<>>
              /\ handlers[heap0[log[c][Len(log[c])].node].kind] = "raise"
              /\ \A i \in 1..(Len(log[c]) - 1) :
                    handlers[heap0[log[c][i].node].kind] # "raise"
        /\ status[c] = "raised" => stack[c] = <<>>

\* A failed call on a Comparison: visit_Literal raised on the left operand,
\* the right one was never visited.
C8_Witness ==
    /\ status[1] = "raised"
    /\ heap0[root[1]].kind = "Comparison"
    /\ Len(log[1]) = 2
    /\ Len(PreOrder(heap0, Ref(root[1]))) = 3

----------------------------------------------------------------------------
(* C10 *)

\* C10 (statelessness and reentrancy): however the statements of two
\* handler-free calls on the same tree or on two trees interleave, each call
\* visits the nodes of its tree in pre-order, as it does alone, and returns
\* what it returns alone (None from NodeVisitor, a structurally equal tree
\* of new nodes from NodeTransformer); the two returned trees have no node
\* in common.
C10_Reentrant ==
    /\ \A c \in Calls :
          LET want == PreOrder(heap0, Ref(root[c]))
          IN  /\ Len(log[c]) <= Len(want)
              /\ Visited(c) = SubSeq(want, 1, Len(log[c]))
              /\ \A i \in 1..Len(log[c]) : log[c][i].how = "generic"
              /\ Returned(c) =>
                    /\ Visited(c) = want
                    /\ engine[c] = "NodeVisitor" => result[c] = None
                    /\ engine[c] = "NodeTransformer" =>
                          /\ IsNode(heap, result[c])
                          /\ Abs(heap, result[c]) = Abs(heap0, Ref(root[c]))
                          /\ NodesOf(heap, result[c]) \cap Original = {}
    /\ (\A c \in Calls : Returned(c) /\ engine[c] = "NodeTransformer") =>
          NodesOf(heap, result[1]) \cap NodesOf(heap, result[2]) = {}

\* Two transformations of the same tree have returned, and the nodes of
\* one were built between nodes of the other.
C10_Witness ==
    /\ \A c \in Calls : Returned(c) /\ engine[c] = "NodeTransformer"
    /\ root[1] = root[2]
    /\ \E a, b \in NodesOf(heap, result[1]) :
          \E x \in NodesOf(heap, result[2]) : a < x /\ x < b

====
